---- MODULE Spec2Model ----
(***************************************************************************)
(* The spirv-val command-line front end (tools/val/val.cpp): argument      *)
(* parsing, input loading, the validate call with its message consumer,    *)
(* and the process exit code.                                              *)
(*                                                                         *)
(* C strings are sequences of one-character strings; the terminating NUL   *)
(* is the position just past the end.  argv holds the tokens after the     *)
(* program name, so C's argv[i] is argv[i] here and C's argc is            *)
(* Len(argv) + 1.  A `const char*` into argv is the index of the token,    *)
(* nullptr is 0.                                                           *)
(***************************************************************************)
EXTENDS Integers, Sequences, FiniteSets

\* Longest command line explored (tokens after the program name).
MaxArgs == 4
\* Most diagnostics the validator reports in one call.
MaxEvents == 2
\* Command lines of at most this many tokens are explored with up to
\* MaxEvents diagnostics, longer ones with at most one.
DiagArgs == 0
\* Command lines of at most this many tokens are parsed again with their
\* tail changed.
ReparseArgs == 3

---------------------------------------------------------------------------
\* Option spellings compared by main and by the two library parsers.
OptHelp == <<"-", "-", "h", "e", "l", "p">>
OptH == <<"-", "h">>
OptVersion == <<"-", "-", "v", "e", "r", "s", "i", "o", "n">>
OptTargetEnv == <<"-", "-", "t", "a", "r", "g", "e", "t", "-", "e", "n", "v">>
OptRelaxLogicalPointer == <<"-", "-", "r", "e", "l", "a", "x", "-", "l", "o", "g", "i", "c", "a", "l", "-", "p", "o", "i", "n", "t", "e", "r">>
OptRelaxStructStore == <<"-", "-", "r", "e", "l", "a", "x", "-", "s", "t", "r", "u", "c", "t", "-", "s", "t", "o", "r", "e">>
MaxPrefix == <<"-", "-", "m", "a", "x", "-">>
OptMaxStructMembers == <<"-", "-", "m", "a", "x", "-", "s", "t", "r", "u", "c", "t", "-", "m", "e", "m", "b", "e", "r", "s">>
OptMaxStructDepth == <<"-", "-", "m", "a", "x", "-", "s", "t", "r", "u", "c", "t", "-", "d", "e", "p", "t", "h">>
OptMaxLocalVariables == <<"-", "-", "m", "a", "x", "-", "l", "o", "c", "a", "l", "-", "v", "a", "r", "i", "a", "b", "l", "e", "s">>
OptMaxGlobalVariables == <<"-", "-", "m", "a", "x", "-", "g", "l", "o", "b", "a", "l", "-", "v", "a", "r", "i", "a", "b", "l", "e", "s">>
OptMaxSwitchBranches == <<"-", "-", "m", "a", "x", "-", "s", "w", "i", "t", "c", "h", "-", "b", "r", "a", "n", "c", "h", "e", "s">>
OptMaxFunctionArgs == <<"-", "-", "m", "a", "x", "-", "f", "u", "n", "c", "t", "i", "o", "n", "-", "a", "r", "g", "s">>
OptMaxControlFlowNestingDepth == <<"-", "-", "m", "a", "x", "-", "c", "o", "n", "t", "r", "o", "l", "-", "f", "l", "o", "w", "-", "n", "e", "s", "t", "i", "n", "g", "-", "d", "e", "p", "t", "h">>
OptMaxAccessChainIndexes == <<"-", "-", "m", "a", "x", "-", "a", "c", "c", "e", "s", "s", "-", "c", "h", "a", "i", "n", "-", "i", "n", "d", "e", "x", "e", "s">>
EnvVulkan10 == <<"v", "u", "l", "k", "a", "n", "1", ".", "0">>
EnvSpv10 == <<"s", "p", "v", "1", ".", "0">>
EnvSpv11 == <<"s", "p", "v", "1", ".", "1">>
EnvSpv12 == <<"s", "p", "v", "1", ".", "2">>

\* Further tokens a user may type.
TokMaxBogus == <<"-", "-", "m", "a", "x", "-", "b", "o", "g", "u", "s">>
TokDash == <<"-">>
TokSeven == <<"7">>
TokMinusOne == <<"-", "1">>
TokEmpty == <<>>
TokSevenA == <<"7", "a">>

\* The tokens command lines are built from.
Tokens ==
  { OptHelp, OptH, OptVersion, OptTargetEnv, EnvSpv11,
    OptRelaxLogicalPointer, OptRelaxStructStore,
    OptMaxStructMembers, OptMaxStructDepth, TokMaxBogus,
    TokDash, TokSeven, TokMinusOne, TokEmpty, TokSevenA }

ArgLists == UNION { [1..n -> Tokens] : n \in 0..MaxArgs }

\* argv[0], the name the program was started under.
Argv0 == <<"s", "p", "i", "r", "v", "-", "v", "a", "l">>

---------------------------------------------------------------------------
\* C string primitives.

\* s[i] of a C string (0-based); the terminator reads as "NUL".
CharAt(s, i) == IF i < Len(s) THEN s[i + 1] ELSE "NUL"

Min(a, b) == IF a < b THEN a ELSE b

\* 0 == strcmp(a, b)
StrEq(a, b) == a = b

\* 0 == strncmp(a, b, n): the first n characters agree, the comparison
\* ending early at a NUL both strings share.
StrNEq(a, b, n) ==
  \A i \in 0..(n - 1) : i <= Min(Len(a), Len(b)) => CharAt(a, i) = CharAt(b, i)

IsSpace(c) == c \in {" ", "\t", "\n", "\r"}
Digits == <<"0", "1", "2", "3", "4", "5", "6", "7", "8", "9">>
IsDigit(c) == \E d \in 1..10 : Digits[d] = c
DigitVal(c) == (CHOOSE d \in 1..10 : Digits[d] = c) - 1

RECURSIVE SkipSpace(_, _)
SkipSpace(s, i) == IF IsSpace(CharAt(s, i)) THEN SkipSpace(s, i + 1) ELSE i

RECURSIVE ScanDigits(_, _, _)
ScanDigits(s, i, acc) ==
  IF IsDigit(CharAt(s, i)) THEN ScanDigits(s, i + 1, acc * 10 + DigitVal(CharAt(s, i)))
  ELSE acc

\* sscanf(s, "%d", &x): ret is the return value (1 one conversion, 0 a
\* matching failure, -1 EOF: the input ended before any conversion), val the
\* int stored when ret = 1.
ScanfD(s) ==
  LET i == SkipSpace(s, 0)
      c == CharAt(s, i)
      j == IF c \in {"-", "+"} THEN i + 1 ELSE i
  IN  IF c = "NUL" THEN [ret |-> -1, val |-> 0]
      ELSE IF ~IsDigit(CharAt(s, j)) THEN [ret |-> 0, val |-> 0]
      ELSE [ret |-> 1,
            val |-> IF c = "-" THEN 0 - ScanDigits(s, j, 0) ELSE ScanDigits(s, j, 0)]

\* The bits of an int read back as uint32_t, as two 16-bit halves (the
\* value is hi * 65536 + lo).
ToUint32(v) ==
  IF v >= 0 THEN [hi |-> v \div 65536, lo |-> v % 65536]
  ELSE LET u == (v + 2147483647) + 1
       IN  [hi |-> (u \div 65536) + 32768, lo |-> u % 65536]

---------------------------------------------------------------------------
\* The library the front end calls.

LimitKinds ==
  { "max_struct_members", "max_struct_depth", "max_local_variables",
    "max_global_variables", "max_switch_branches", "max_function_args",
    "max_control_flow_nesting_depth", "max_access_chain_indexes" }

\* The resolver's fixed table: option spelling and limit kind.
LimitTable ==
  { <<OptMaxStructMembers, "max_struct_members">>,
    <<OptMaxStructDepth, "max_struct_depth">>,
    <<OptMaxLocalVariables, "max_local_variables">>,
    <<OptMaxGlobalVariables, "max_global_variables">>,
    <<OptMaxSwitchBranches, "max_switch_branches">>,
    <<OptMaxFunctionArgs, "max_function_args">>,
    <<OptMaxControlFlowNestingDepth, "max_control_flow_nesting_depth">>,
    <<OptMaxAccessChainIndexes, "max_access_chain_indexes">> }

\* spvParseUniversalLimitsOptions(s, &type): exact match against the table.
spvParseUniversalLimitsOptions(s) ==
  IF \E e \in LimitTable : StrEq(s, e[1])
  THEN [ok |-> TRUE, type |-> (CHOOSE e \in LimitTable : StrEq(s, e[1]))[2]]
  ELSE [ok |-> FALSE, type |-> "none"]

\* The target environments --target-env accepts.
EnvTable ==
  { <<EnvVulkan10, "SPV_ENV_VULKAN_1_0">>,
    <<EnvSpv10, "SPV_ENV_UNIVERSAL_1_0">>,
    <<EnvSpv11, "SPV_ENV_UNIVERSAL_1_1">>,
    <<EnvSpv12, "SPV_ENV_UNIVERSAL_1_2">> }

\* spvParseTargetEnv(s, &env): exact match against the table; env is what
\* the caller's variable holds afterwards.
spvParseTargetEnv(s, env) ==
  IF \E e \in EnvTable : StrEq(s, e[1])
  THEN [ok |-> TRUE, env |-> (CHOOSE e \in EnvTable : StrEq(s, e[1]))[2]]
  ELSE [ok |-> FALSE, env |-> env]

\* ValidatorOptions: the limits explicitly set, and the two relaxations.
DefaultOptions ==
  [limits |-> [k \in {} |-> ToUint32(0)],
   relax_logical_pointer |-> FALSE,
   relax_struct_store |-> FALSE]

SetUniversalLimit(options, limit_type, limit) ==
  [options EXCEPT !.limits =
     [k \in (DOMAIN options.limits) \cup {limit_type} |->
        IF k = limit_type THEN limit ELSE options.limits[k]]]

SetRelaxLogicalPointer(options, val) == [options EXCEPT !.relax_logical_pointer = val]

SetRelaxStructStore(options, val) == [options EXCEPT !.relax_struct_store = val]

---------------------------------------------------------------------------
\* Lines written to the two streams.

print_usage(argv0) == <<"usage", argv0>>

VersionLines ==
  << <<"version">>,
     <<"Targets:", "SPV_ENV_UNIVERSAL_1_1", "SPV_ENV_VULKAN_1_0", "SPV_ENV_UNIVERSAL_1_2">> >>

ErrMissingArgumentLower(cur_arg) == <<"error: missing argument to ", cur_arg>>

ErrUnrecognizedOption(cur_arg) == <<"error: unrecognized option: ", cur_arg>>

ErrMissingArgument(cur_arg) == <<"error: Missing argument to ", cur_arg>>

ErrUnrecognizedTargetEnv(env_str) == <<"error: Unrecognized target env: ", env_str>>

ErrMoreThanOneInput == <<"error: More than one input file specified">>

ErrReadFile == <<"error: file could not be read">>

---------------------------------------------------------------------------
\* main's argument loop.  P is the record of main's locals and of the two
\* streams; each branch returns P as the branch leaves it.

InitLocals ==
  [argi |-> 1, inFile |-> 0, target_env |-> "SPV_ENV_UNIVERSAL_1_2",
   options |-> DefaultOptions, continue_processing |-> TRUE, return_code |-> 0,
   out |-> <<>>, err |-> <<>>]

\* continue_processing = false; return_code = rc;
Stop(P, rc) == [P EXCEPT !.continue_processing = FALSE, !.return_code = rc]

\* Mutant: a limit already set is not set again.
ScanLimitKeepsFirst(P, args, limit_type) ==
  LET sc == ScanfD(args[P.argi + 1])
      limit == IF sc.ret = 1 THEN ToUint32(sc.val) ELSE ToUint32(0)
      Q == [P EXCEPT !.argi = @ + 1]
  IN  IF sc.ret # 0
      THEN IF limit_type \in DOMAIN P.options.limits
           THEN Q
           ELSE [Q EXCEPT !.options = SetUniversalLimit(@, limit_type, limit)]
      ELSE Stop([Q EXCEPT !.err = Append(@, ErrMissingArgumentLower(args[P.argi]))], 1)

\* The if (sscanf(argv[++argi], "%d", &limit)) statement, limit being 0
\* before the call.
ScanLimit(P, args, limit_type) ==
  LET sc == ScanfD(args[P.argi + 1])
      limit == IF sc.ret = 1 THEN ToUint32(sc.val) ELSE ToUint32(0)
      Q == [P EXCEPT !.argi = @ + 1]
  IN  IF sc.ret # 0
      THEN [Q EXCEPT !.options = SetUniversalLimit(@, limit_type, limit)]
      ELSE Stop([Q EXCEPT !.err = Append(@, ErrMissingArgumentLower(args[P.argi]))], 1)

\* Mutant: the option name is resolved before the following token is
\* looked for.
MaxBranchResolvesFirst(P, args) ==
  LET cur_arg == args[P.argi]
      r == spvParseUniversalLimitsOptions(cur_arg)
  IN  IF r.ok
      THEN IF P.argi + 1 <= Len(args)
           THEN ScanLimit(P, args, r.type)
           ELSE Stop([P EXCEPT !.err = Append(@, ErrMissingArgument(cur_arg))], 1)
      ELSE Stop([P EXCEPT !.err = Append(@, ErrUnrecognizedOption(cur_arg))], 1)

MaxBranch(P, args) ==
  LET cur_arg == args[P.argi]
      r == spvParseUniversalLimitsOptions(cur_arg)
  IN  IF P.argi + 1 <= Len(args)
      THEN IF r.ok
           THEN ScanLimit(P, args, r.type)
           ELSE Stop([P EXCEPT !.err = Append(@, ErrUnrecognizedOption(cur_arg))], 1)
      ELSE Stop([P EXCEPT !.err = Append(@, ErrMissingArgument(cur_arg))], 1)

VersionBranch(P) == Stop([P EXCEPT !.out = @ \o VersionLines], 0)

\* Mutant: help ends with return code 1.
HelpBranchReturnsOne(P) == Stop([P EXCEPT !.out = Append(@, print_usage(Argv0))], 1)

HelpBranch(P) == Stop([P EXCEPT !.out = Append(@, print_usage(Argv0))], 0)

TargetEnvBranch(P, args) ==
  IF P.argi + 1 <= Len(args)
  THEN LET env_str == args[P.argi + 1]
           r == spvParseTargetEnv(env_str, P.target_env)
           Q == [P EXCEPT !.argi = @ + 1, !.target_env = r.env]
       IN  IF ~r.ok
           THEN Stop([Q EXCEPT !.err = Append(@, ErrUnrecognizedTargetEnv(env_str))], 1)
           ELSE Q
  ELSE Stop([P EXCEPT !.err = Append(@, ErrMissingArgument(OptTargetEnv))], 1)

RelaxLogicalPointerBranch(P) ==
  [P EXCEPT !.options = SetRelaxLogicalPointer(@, TRUE)]

RelaxStructStoreBranch(P) ==
  [P EXCEPT !.options = SetRelaxStructStore(@, TRUE)]

\* Mutant: "-" replaces an input file already given.
StdinBranchOverwrites(P) == [P EXCEPT !.inFile = P.argi]

\* cur_arg is "-": standard input named as the input file.
StdinBranch(P) ==
  IF P.inFile = 0
  THEN [P EXCEPT !.inFile = P.argi]
  ELSE Stop([P EXCEPT !.err = Append(@, ErrMoreThanOneInput)], 1)

\* Mutant: the unknown option treated like --help, return code 0.
UnknownOptionBranchReturnsZero(P) == Stop([P EXCEPT !.out = Append(@, print_usage(Argv0))], 0)

UnknownOptionBranch(P) == Stop([P EXCEPT !.out = Append(@, print_usage(Argv0))], 1)

\* cur_arg does not start with '-': the input file.
PositionalBranch(P) ==
  IF P.inFile = 0
  THEN [P EXCEPT !.inFile = P.argi]
  ELSE Stop([P EXCEPT !.err = Append(@, ErrMoreThanOneInput)], 1)

\* The body of the for loop, for the token at P.argi.
LoopBody(P, args) ==
  LET cur_arg == args[P.argi]
  IN  IF CharAt(cur_arg, 0) = "-"
      THEN IF StrNEq(cur_arg, MaxPrefix, 6) THEN MaxBranch(P, args)
           ELSE IF StrEq(cur_arg, OptVersion) THEN VersionBranch(P)
           ELSE IF StrEq(cur_arg, OptHelp) \/ StrEq(cur_arg, OptH) THEN HelpBranch(P)
           ELSE IF StrEq(cur_arg, OptTargetEnv) THEN TargetEnvBranch(P, args)
           ELSE IF StrEq(cur_arg, OptRelaxLogicalPointer) THEN RelaxLogicalPointerBranch(P)
           ELSE IF StrEq(cur_arg, OptRelaxStructStore) THEN RelaxStructStoreBranch(P)
           ELSE IF CharAt(cur_arg, 1) = "NUL" THEN StdinBranch(P)
           ELSE UnknownOptionBranch(P)
      ELSE PositionalBranch(P)

\* Mutant: the loop runs on after continue_processing was cleared.
LoopCondIgnoresStop(P, args) == P.argi <= Len(args)

\* The loop condition: continue_processing && argi < argc.
LoopCond(P, args) == P.continue_processing /\ P.argi <= Len(args)

\* One iteration: the body, then ++argi.
Iterate(P, args) == [LoopBody(P, args) EXCEPT !.argi = @ + 1]

\* The whole loop, from locals P (Q names the locals after one iteration).
RECURSIVE RunLoop(_, _)
RunLoop(P, args) ==
  IF LoopCond(P, args)
  THEN CHOOSE R \in { RunLoop(Q, args) : Q \in {Iterate(P, args)} } : TRUE
  ELSE P

---------------------------------------------------------------------------
\* The validate call and its message consumer.

Levels ==
  { "SPV_MSG_FATAL", "SPV_MSG_INTERNAL_ERROR", "SPV_MSG_ERROR",
    "SPV_MSG_WARNING", "SPV_MSG_INFO", "SPV_MSG_DEBUG" }

\* The diagnostics the validator may report: level, position.index, message.
Events == [level : Levels, index : {0, 7}, message : {<<"X">>}]

\* Mutant: warnings go to standard error.
MessageConsumerWarnsOnStderr(S, e) ==
  IF e.level \in {"SPV_MSG_FATAL", "SPV_MSG_INTERNAL_ERROR", "SPV_MSG_ERROR"}
  THEN [S EXCEPT !.err = Append(@, <<"error: ", e.index, ": ", e.message>>)]
  ELSE IF e.level = "SPV_MSG_WARNING"
  THEN [S EXCEPT !.err = Append(@, <<"warning: ", e.index, ": ", e.message>>)]
  ELSE IF e.level = "SPV_MSG_INFO"
  THEN [S EXCEPT !.out = Append(@, <<"info: ", e.index, ": ", e.message>>)]
  ELSE S

\* Mutant: a line equal to the last one written to the stream is not
\* written again.
MessageConsumerDropsRepeats(S, e) ==
  LET AppendNew(stream, line) ==
        IF Len(stream) > 0 /\ stream[Len(stream)] = line THEN stream
        ELSE Append(stream, line)
  IN  IF e.level \in {"SPV_MSG_FATAL", "SPV_MSG_INTERNAL_ERROR", "SPV_MSG_ERROR"}
      THEN [S EXCEPT !.err = AppendNew(@, <<"error: ", e.index, ": ", e.message>>)]
      ELSE IF e.level = "SPV_MSG_WARNING"
      THEN [S EXCEPT !.out = AppendNew(@, <<"warning: ", e.index, ": ", e.message>>)]
      ELSE IF e.level = "SPV_MSG_INFO"
      THEN [S EXCEPT !.out = AppendNew(@, <<"info: ", e.index, ": ", e.message>>)]
      ELSE S

\* The lambda given to SetMessageConsumer, on streams S = [out, err].
MessageConsumer(S, e) ==
  IF e.level \in {"SPV_MSG_FATAL", "SPV_MSG_INTERNAL_ERROR", "SPV_MSG_ERROR"}
  THEN [S EXCEPT !.err = Append(@, <<"error: ", e.index, ": ", e.message>>)]
  ELSE IF e.level = "SPV_MSG_WARNING"
  THEN [S EXCEPT !.out = Append(@, <<"warning: ", e.index, ": ", e.message>>)]
  ELSE IF e.level = "SPV_MSG_INFO"
  THEN [S EXCEPT !.out = Append(@, <<"info: ", e.index, ": ", e.message>>)]
  ELSE S

\* Mutant: return succeed;
ExitCodeOfUnnegated(succeed) == IF succeed THEN 1 ELSE 0

\* return !succeed;
ExitCodeOf(succeed) == IF succeed THEN 0 ELSE 1

\* How many diagnostics a run on command line args is explored with.
EventBound(args) == IF Len(args) <= DiagArgs THEN MaxEvents ELSE 1

---------------------------------------------------------------------------
VARIABLES
  argv,                 \* the tokens after the program name
  argi, inFile, target_env, options, continue_processing, return_code,
  stdout, stderr,       \* the lines written to each stream, in order
  pc,                   \* where main is: "parse", "read", "validate", "consume", "exit"
  read_calls,           \* calls of ReadFile so far
  validate_calls,       \* calls of SpirvTools::Validate so far
  events,               \* the diagnostics the validator has reported so far
  succeed,              \* what Validate returned (FALSE until it returns)
  exit_code             \* the process exit status, -1 while main runs

vars ==
  << argv, argi, inFile, target_env, options, continue_processing, return_code,
     stdout, stderr, pc, read_calls, validate_calls, events, succeed, exit_code >>

\* main's locals and the streams, as the record the loop works on.
Locals ==
  [argi |-> argi, inFile |-> inFile, target_env |-> target_env,
   options |-> options, continue_processing |-> continue_processing,
   return_code |-> return_code, out |-> stdout, err |-> stderr]

SetLocals(P) ==
  /\ argi' = P.argi
  /\ inFile' = P.inFile
  /\ target_env' = P.target_env
  /\ options' = P.options
  /\ continue_processing' = P.continue_processing
  /\ return_code' = P.return_code
  /\ stdout' = P.out
  /\ stderr' = P.err

Init ==
  /\ argv \in ArgLists
  /\ argi = InitLocals.argi
  /\ inFile = InitLocals.inFile
  /\ target_env = InitLocals.target_env
  /\ options = InitLocals.options
  /\ continue_processing = InitLocals.continue_processing
  /\ return_code = InitLocals.return_code
  /\ stdout = <<>>
  /\ stderr = <<>>
  /\ pc = "parse"
  /\ read_calls = 0
  /\ validate_calls = 0
  /\ events = <<>>
  /\ succeed = FALSE
  /\ exit_code = -1

\* One iteration of the argument loop.
ParseArg ==
  /\ pc = "parse"
  /\ LoopCond(Locals, argv)
  /\ SetLocals(Iterate(Locals, argv))
  /\ UNCHANGED <<argv, pc, read_calls, validate_calls, events, succeed, exit_code>>

\* if (!continue_processing) return return_code;
ParseFailed ==
  /\ pc = "parse"
  /\ ~LoopCond(Locals, argv)
  /\ ~continue_processing
  /\ pc' = "exit"
  /\ exit_code' = return_code
  /\ UNCHANGED <<argv, argi, inFile, target_env, options, continue_processing,
                 return_code, stdout, stderr, read_calls, validate_calls, events, succeed>>

\* The loop ran out of tokens with continue_processing still set.
ParseDone ==
  /\ pc = "parse"
  /\ ~LoopCond(Locals, argv)
  /\ continue_processing
  /\ pc' = "read"
  /\ UNCHANGED <<argv, argi, inFile, target_env, options, continue_processing,
                 return_code, stdout, stderr, read_calls, validate_calls, events,
                 succeed, exit_code>>

\* ReadFile<uint32_t>(inFile, "rb", &contents) succeeds.
ReadFileOk ==
  /\ pc = "read"
  /\ read_calls' = read_calls + 1
  /\ pc' = "validate"
  /\ UNCHANGED <<argv, argi, inFile, target_env, options, continue_processing,
                 return_code, stdout, stderr, validate_calls, events, succeed, exit_code>>

\* ReadFile fails: it reports the failure and main returns 1.
ReadFileFails ==
  /\ pc = "read"
  /\ read_calls' = read_calls + 1
  /\ stderr' = Append(stderr, ErrReadFile)
  /\ pc' = "exit"
  /\ exit_code' = 1
  /\ UNCHANGED <<argv, argi, inFile, target_env, options, continue_processing,
                 return_code, stdout, validate_calls, events, succeed>>

\* tools.Validate(...) is entered, the consumer having been registered.
ValidateCall ==
  /\ pc = "validate"
  /\ validate_calls' = validate_calls + 1
  /\ pc' = "consume"
  /\ UNCHANGED <<argv, argi, inFile, target_env, options, continue_processing,
                 return_code, stdout, stderr, read_calls, events, succeed, exit_code>>

\* The validator reports one diagnostic: the consumer runs on it.
Consume ==
  /\ pc = "consume"
  /\ Len(events) < EventBound(argv)
  /\ \E e \in Events :
       LET S == MessageConsumer([out |-> stdout, err |-> stderr], e)
       IN  /\ events' = Append(events, e)
           /\ stdout' = S.out
           /\ stderr' = S.err
  /\ UNCHANGED <<argv, argi, inFile, target_env, options, continue_processing,
                 return_code, pc, read_calls, validate_calls, succeed, exit_code>>

\* Validate returns and main returns !succeed.
ValidateReturn ==
  /\ pc = "consume"
  /\ \E b \in BOOLEAN :
       /\ succeed' = b
       /\ exit_code' = ExitCodeOf(b)
  /\ pc' = "exit"
  /\ UNCHANGED <<argv, argi, inFile, target_env, options, continue_processing,
                 return_code, stdout, stderr, read_calls, validate_calls, events>>

Next ==
  \/ ParseArg
  \/ ParseFailed
  \/ ParseDone
  \/ ReadFileOk
  \/ ReadFileFails
  \/ ValidateCall
  \/ Consume
  \/ ValidateReturn

Spec == Init /\ [][Next]_vars

TypeOK ==
  /\ argi \in 1..(Len(argv) + 1)
  /\ inFile \in 0..Len(argv)
  /\ pc \in {"parse", "read", "validate", "consume", "exit"}
  /\ exit_code \in {-1, 0, 1}
  /\ Len(events) <= MaxEvents

---------------------------------------------------------------------------
\* Vocabulary of the properties, stated on the tokens themselves.

\* main is at the top of the loop with the token argv[argi] to examine.
AtToken == pc = "parse" /\ continue_processing /\ argi <= Len(argv)

LimitNames == { e[1] : e \in LimitTable }

EnvNames == { e[1] : e \in EnvTable }

KnownOptions ==
  { OptHelp, OptH, OptVersion, OptTargetEnv, OptRelaxLogicalPointer, OptRelaxStructStore }

HasMaxPrefix(t) == Len(t) >= 6 /\ SubSeq(t, 1, 6) = MaxPrefix

StartsWithDash(t) == Len(t) >= 1 /\ t[1] = "-"

\* A token taken as the input path: the exact token "-", or one not
\* starting with '-'.
IsInputToken(t) == t = TokDash \/ ~StartsWithDash(t)

\* A base-10 unsigned integer: one or more digits and nothing else.
IsUnsignedDecimal(t) ==
  Len(t) >= 1 /\ \A i \in 1..Len(t) : t[i] \in {"0", "1", "2", "3", "4", "5", "6", "7", "8", "9"}

\* Its value, digit by digit from the right.
RECURSIVE DecimalValue(_)
DecimalValue(t) ==
  IF Len(t) = 0 THEN 0
  ELSE 10 * DecimalValue(SubSeq(t, 1, Len(t) - 1))
         + (CHOOSE d \in 0..9 : Digits[d + 1] = t[Len(t)])

\* The last line written to a stream (<<>> when nothing was written).
LastLine(stream) == IF Len(stream) = 0 THEN <<>> ELSE stream[Len(stream)]

\* main has stopped on a parse error and has not yet returned.
StoppedOnError == pc = "parse" /\ ~continue_processing /\ return_code = 1

\* The token at argi is one of the argument errors: a missing value, an
\* unrecognized target env or --max-* name, an unknown option, a second
\* input path.
ArgErrorAtToken ==
  /\ AtToken
  /\ LET t == argv[argi]
     IN  \/ t = OptTargetEnv /\ (argi = Len(argv) \/ argv[argi + 1] \notin EnvNames)
         \/ HasMaxPrefix(t) /\ (argi = Len(argv) \/ t \notin LimitNames)
         \/ StartsWithDash(t) /\ t # TokDash /\ ~HasMaxPrefix(t) /\ t \notin KnownOptions
         \/ IsInputToken(t) /\ inFile # 0

---------------------------------------------------------------------------
\* C1: whenever main returns after the validate call, the exit code is 0 if
\* Validate returned true and 1 if it returned false, whatever was reported
\* during the call.
C1_ExitCodeNegatesOutcome ==
  (pc = "exit" /\ validate_calls > 0) =>
     /\ succeed => exit_code = 0
     /\ ~succeed => exit_code = 1

C1_Witness ==
  /\ pc = "exit" /\ validate_calls = 1
  /\ succeed /\ exit_code = 0
  /\ Len(stderr) > 0

\* C2: a token that is an argument error stops the loop with return code 1;
\* from there main only returns, with exit code 1, ReadFile and Validate
\* never having been called; nothing happens after main has returned.
C2_ArgErrorExits ==
  [][ /\ ArgErrorAtToken => (~continue_processing' /\ return_code' = 1 /\ pc' = "parse")
      /\ StoppedOnError =>
           (pc' = "exit" /\ exit_code' = 1 /\ read_calls' = 0 /\ validate_calls' = 0)
      /\ pc = "exit" => FALSE ]_vars

C2_Witness ==
  /\ pc = "exit" /\ exit_code = 1
  /\ read_calls = 0 /\ validate_calls = 0
  /\ stderr = << ErrUnrecognizedTargetEnv(TokSeven) >>
  /\ options.relax_logical_pointer

\* C3: a second input token ("-" or positional) is the "More than one input
\* file specified" error: return code 1, the first input path kept, and main
\* then returns 1 without ReadFile having been called.
C3_SecondInputIsError ==
  [][ /\ (AtToken /\ IsInputToken(argv[argi]) /\ inFile # 0) =>
           /\ stderr' = Append(stderr, ErrMoreThanOneInput)
           /\ ~continue_processing' /\ return_code' = 1
           /\ inFile' = inFile /\ IsInputToken(argv[inFile]) /\ inFile < argi
           /\ read_calls' = 0
      /\ (StoppedOnError /\ LastLine(stderr) = ErrMoreThanOneInput) =>
           /\ pc' = "exit" /\ exit_code' = 1
           /\ inFile' = inFile /\ read_calls' = 0 ]_vars

C3_Witness ==
  /\ pc = "exit" /\ exit_code = 1 /\ read_calls = 0
  /\ stderr = << ErrMoreThanOneInput >>
  /\ Len(argv) = 4 /\ inFile = 2 /\ argv[2] = TokDash /\ argv[3] = TokSeven
  /\ options.relax_struct_store

\* The places of the command line where the option of limit kind k stands.
Occurrences(k) ==
  { i \in 1..Len(argv) : \E e \in LimitTable : e[2] = k /\ argv[i] = e[1] }

Last(S) == CHOOSE i \in S : \A j \in S : j <= i

\* C4: after a successful parse, a limit kind whose option never appears is
\* absent from the limits, and one that appears is present with the value
\* given at its last occurrence.
C4_LimitsAreLastWinsFold ==
  (pc # "parse" /\ continue_processing) =>
     \A k \in LimitKinds :
        IF Occurrences(k) = {}
        THEN k \notin DOMAIN options.limits
        ELSE /\ k \in DOMAIN options.limits
             /\ Last(Occurrences(k)) < Len(argv)
             /\ LET n == argv[Last(Occurrences(k)) + 1]
                IN  IsUnsignedDecimal(n) =>
                      options.limits[k] = [hi |-> 0, lo |-> DecimalValue(n)]

C4_Witness ==
  /\ pc = "read"
  /\ argv = << OptMaxStructMembers, TokMinusOne, OptMaxStructMembers, TokSeven >>
  /\ DOMAIN options.limits = {"max_struct_members"}
  /\ options.limits["max_struct_members"] = [hi |-> 0, lo |-> 7]

\* C5: a recognised --max-* option followed by a token that is not a base-10
\* unsigned integer is the "missing argument to" error with return code 1,
\* and leaves the limits as they were.
C5_NonNumericIsError ==
  [][ (AtToken /\ argv[argi] \in LimitNames /\ argi < Len(argv)
         /\ ~IsUnsignedDecimal(argv[argi + 1])) =>
        /\ stderr' = Append(stderr, ErrMissingArgumentLower(argv[argi]))
        /\ ~continue_processing' /\ return_code' = 1
        /\ options' = options ]_vars

\* C6 as stated: an unrecognized --max-* token is the "unrecognized option"
\* error wherever it stands.
C6_UnrecognizedAnywhere ==
  [][ (AtToken /\ HasMaxPrefix(argv[argi]) /\ argv[argi] \notin LimitNames) =>
        /\ stderr' = Append(stderr, ErrUnrecognizedOption(argv[argi]))
        /\ ~continue_processing' /\ return_code' = 1 ]_vars

\* C6 amended: an unrecognized --max-* token stops parsing with return code
\* 1; the error is "unrecognized option" when a token follows it and
\* "Missing argument to" when it is the last token.
C6_UnrecognizedUnlessLast ==
  [][ (AtToken /\ HasMaxPrefix(argv[argi]) /\ argv[argi] \notin LimitNames) =>
        /\ ~continue_processing' /\ return_code' = 1
        /\ options' = options
        /\ stderr' = Append(stderr,
                            IF argi < Len(argv)
                            THEN ErrUnrecognizedOption(argv[argi])
                            ELSE ErrMissingArgument(argv[argi])) ]_vars

C6_Witness ==
  /\ pc = "exit" /\ exit_code = 1
  /\ Len(argv) = 3 /\ argv[2] = TokMaxBogus /\ argi = 3
  /\ stderr = << ErrUnrecognizedOption(TokMaxBogus) >>

\* C7: --help and -h alike print the usage text, stop parsing with return
\* code 0, and main then returns 0 with ReadFile and Validate never called,
\* whatever tokens follow.
C7_HelpExitsZero ==
  [][ /\ (AtToken /\ argv[argi] \in {OptHelp, OptH}) =>
           /\ stdout' = Append(stdout, print_usage(Argv0))
           /\ stderr' = stderr
           /\ ~continue_processing' /\ return_code' = 0
           /\ inFile' = inFile /\ options' = options /\ target_env' = target_env
      /\ (pc = "parse" /\ ~continue_processing /\ argv[argi - 1] \in {OptHelp, OptH}
            /\ LastLine(stdout) = print_usage(Argv0) /\ return_code = 0) =>
           /\ pc' = "exit" /\ exit_code' = 0
           /\ read_calls' = 0 /\ validate_calls' = 0
           /\ stdout' = stdout /\ stderr' = stderr ]_vars

C7_Witness ==
  /\ pc = "exit" /\ exit_code = 0
  /\ read_calls = 0 /\ validate_calls = 0
  /\ stdout = << print_usage(Argv0) >> /\ stderr = <<>>
  /\ Len(argv) = 4 /\ argv[3] = OptH /\ argv[4] = TokMaxBogus
  /\ options.limits = [k \in {"max_struct_depth"} |-> [hi |-> 0, lo |-> 7]]

\* The line the router is to print for a diagnostic of the given label.
DiagLine(label, e) == << label, e.index, ": ", e.message >>

ErrorLevels == {"SPV_MSG_FATAL", "SPV_MSG_INTERNAL_ERROR", "SPV_MSG_ERROR"}

\* C8: each diagnostic is routed by its level alone: fatal, internal error
\* and error add one "error: " line to standard error and nothing to
\* standard output; warning and info add one line with their label to
\* standard output and nothing to standard error; any other level adds
\* nothing to either.
C8_RoutedByLevel ==
  [][ (pc = "consume" /\ events' # events) =>
        LET e == events'[Len(events')]
        IN  /\ events' = Append(events, e)
            /\ e.level \in ErrorLevels =>
                 stderr' = Append(stderr, DiagLine("error: ", e)) /\ stdout' = stdout
            /\ e.level = "SPV_MSG_WARNING" =>
                 stdout' = Append(stdout, DiagLine("warning: ", e)) /\ stderr' = stderr
            /\ e.level = "SPV_MSG_INFO" =>
                 stdout' = Append(stdout, DiagLine("info: ", e)) /\ stderr' = stderr
            /\ e.level \notin ErrorLevels \cup {"SPV_MSG_WARNING", "SPV_MSG_INFO"} =>
                 stdout' = stdout /\ stderr' = stderr ]_vars

C8_Witness ==
  /\ pc = "consume"
  /\ Len(events) = 2 /\ events[1].level = "SPV_MSG_WARNING" /\ events[2].level = "SPV_MSG_ERROR"
  /\ stdout = << <<"warning: ", 7, ": ", <<"X">> >> >>
  /\ stderr = << <<"error: ", 7, ": ", <<"X">> >> >>

\* The lines a sequence of diagnostics leaves on standard error and on
\* standard output, in order.
RECURSIVE ErrLinesOf(_)
ErrLinesOf(evs) ==
  IF evs = <<>> THEN <<>>
  ELSE LET e == Head(evs)
       IN  (IF e.level \in ErrorLevels THEN << DiagLine("error: ", e) >> ELSE <<>>)
             \o ErrLinesOf(Tail(evs))

RECURSIVE OutLinesOf(_)
OutLinesOf(evs) ==
  IF evs = <<>> THEN <<>>
  ELSE LET e == Head(evs)
       IN  (IF e.level = "SPV_MSG_WARNING" THEN << DiagLine("warning: ", e) >>
            ELSE IF e.level = "SPV_MSG_INFO" THEN << DiagLine("info: ", e) >>
            ELSE <<>>)
             \o OutLinesOf(Tail(evs))

IsDiagLine(line) ==
  Len(line) = 4 /\ line[1] \in {"error: ", "warning: ", "info: "}

\* C9: before the validate call nothing has been reported and no stream
\* holds a diagnostic line; from the call on, each stream holds exactly the
\* lines of the diagnostics reported so far, one per non-dropped diagnostic
\* and in the order reported, and still does when main has returned.
C9_InOrderDuringCall ==
  /\ validate_calls = 0 =>
       /\ events = <<>>
       /\ \A i \in 1..Len(stdout) : ~IsDiagLine(stdout[i])
       /\ \A i \in 1..Len(stderr) : ~IsDiagLine(stderr[i])
  /\ validate_calls > 0 =>
       /\ validate_calls = 1
       /\ pc \in {"consume", "exit"}
       /\ stderr = ErrLinesOf(events)
       /\ stdout = OutLinesOf(events)

C9_Witness ==
  /\ pc = "exit" /\ validate_calls = 1
  /\ Len(events) = 2 /\ events[1] = events[2] /\ events[1].level = "SPV_MSG_INFO"
  /\ Len(stdout) = 2 /\ stdout[1] = stdout[2]

\* What a parse leaves behind for the rest of main.
Configuration(P) == << P.target_env, P.options, P.inFile >>

\* The command lines that agree with argv up to the last token the loop
\* examined and go on with at most one more token.
Suffixes == { <<>> } \cup { <<t>> : t \in Tokens }

Examined == SubSeq(argv, 1, argi - 1)

ReparseAgrees(s) ==
  \A w \in { Examined \o s } :
    \A R \in { RunLoop(InitLocals, w) } :
      /\ Configuration(R) = << target_env, options, inFile >>
      /\ ~R.continue_processing
      /\ R.return_code = 1

\* The error was the missing value of --target-env or of a recognised
\* --max-* option standing last, and token t is one that option accepts.
AcceptedAsMissingValue(t) ==
  /\ Len(stderr) > 0
  /\ \/ /\ LastLine(stderr) = ErrMissingArgument(OptTargetEnv)
        /\ t \in EnvNames
     \/ /\ \E o \in LimitNames : LastLine(stderr) = ErrMissingArgument(o)
        /\ ScanfD(t).ret # 0

\* Once the loop has stopped, nothing of main's locals changes again, and
\* the step that stops on an error leaves the configuration as it was.
StopsAtFirstError ==
  /\ (pc = "parse" /\ ~continue_processing) =>
        UNCHANGED <<argi, inFile, target_env, options, continue_processing, return_code>>
  /\ (AtToken /\ ~continue_processing' /\ return_code' = 1) =>
        UNCHANGED <<inFile, target_env, options>>

\* C10 as stated: after a parse error, whatever follows the last examined
\* token - nothing, or any token - the parse ends in the same error state
\* with the same configuration and return code.
C10_SuffixNeverMatters ==
  [][ /\ StopsAtFirstError
      /\ (StoppedOnError' /\ Len(argv) <= ReparseArgs) =>
           \A s \in Suffixes : ReparseAgrees(s)' ]_vars

\* C10 amended: the same, except for a token appended directly after a
\* trailing --target-env or recognised --max-* option that is a value the
\* option accepts.
C10_SuffixMattersOnlyAsMissingValue ==
  [][ /\ StopsAtFirstError
      /\ (StoppedOnError' /\ Len(argv) <= ReparseArgs) =>
           \A s \in Suffixes :
              \/ s # <<>> /\ AcceptedAsMissingValue(s[1])'
              \/ ReparseAgrees(s)' ]_vars

C10_Witness ==
  /\ pc = "exit" /\ exit_code = 1
  /\ Len(argv) = 3 /\ argi = 3
  /\ argv[1] = OptRelaxStructStore /\ argv[2] = TokMaxBogus
  /\ argv[3] = OptRelaxLogicalPointer
  /\ options.relax_struct_store /\ ~options.relax_logical_pointer
====
